---- MODULE Spec2Model ----
(***************************************************************************)
(* Status-aggregation engine of the Monitor IOC (src/monitor_ioc.py).      *)
(*                                                                         *)
(* The IOC is a set of asyncio coroutines on one event loop: the startup   *)
(* hook, one _monitor_loop task per target, the putters of the control     *)
(* points and the check_after tasks the per-target putters schedule.  A    *)
(* coroutine runs without interruption up to an await that suspends, so    *)
(* one action below is the code between two suspensions.                   *)
(*                                                                         *)
(* `await self.summary_status.write(v)` stores v in the point and then     *)
(* awaits the delivery of the change to the point's subscribers; the       *)
(* caller may stay suspended there while other coroutines run.  The        *)
(* comparison `summary_status.value != new_status` and the store happen in *)
(* the same uninterrupted run.  A putter of a control point runs BEFORE    *)
(* the written value is stored in the point.                               *)
(***************************************************************************)
EXTENDS Integers, Sequences, FiniteSets, TLC

\* ------------------------------------------------------------------ bounds
\* cap on the check_after tasks that are sleeping at the same time
MaxPending == 2
\* cap on the events a subscription holds for its loop
MaxQueue == 2

\* ----------------------------------------------------------- configuration
\* config.yaml: the ordered list of target identifiers
target_pvs_list == <<"T1", "T2">>

Targets == {target_pvs_list[i] : i \in 1..Len(target_pvs_list)}

\* self.target_values = {t: None for t in target_pvs}
None == -1

\* values a feed can deliver (50 is inside the default range, 150 outside)
Values == {50, 150}
\* array payloads of a read or an event: response.data
ArrayPayloads == {<<50>>, <<150, 50>>}

\* pvproperty defaults
DefaultEnable == 1
DefaultLow == 0
DefaultHigh == 100
DefaultMaster == 1
DefaultSummary == 1

\* values an operator writes to the points
EnableWrites == {0, 1}
LowWrites == {0, 60}
HighWrites == {100, 40}
MasterWrites == {0, 1}

VARIABLES
  target_values,   \* self.target_values: target -> last value or None
  enable_pv,       \* <target>:ENABLE .value
  low_pv,          \* <target>:LOW .value
  high_pv,         \* <target>:HIGH .value
  master_enable,   \* MONITOR:MASTER_ENABLE .value (stored)
  summary_status,  \* MONITOR:SUMMARY_STATUS .value
  startPc,         \* master_enable_startup: "connect","read","pub","done","failed","hung"
  startIdx,        \* index in pvs of the target the startup loop is at
  loopPc,          \* _monitor_loop of each target: "none","wait","pub","dead"
  masterPc,        \* master_enable_putter: "idle", or "pub" (suspended in the summary write)
  masterPending,   \* the value of the MasterEnable write in flight
  pendingChecks,   \* number of check_after tasks sleeping
  replaced,        \* history: the value the latest SUMMARY_STATUS write replaced
  ctlDirty,        \* history: a per-target point was written and no recompute has read it yet
  unresolved,      \* history: the identifiers get_pvs could not resolve
  feedQ,           \* sub: the events of each subscription the loop has not taken yet
  lastDelivered    \* history: the latest value the feed of each target delivered

vars == <<target_values, enable_pv, low_pv, high_pv, master_enable, summary_status,
          startPc, startIdx, loopPc, masterPc, masterPending, pendingChecks,
          replaced, ctlDirty, unresolved, feedQ, lastDelivered>>

\* --------------------------------------------------------- pure functions

\* lines 138-144: a sequence payload gives its first element, a scalar itself
ExtractScalar(isIter, val) == IF isIter THEN val[1] ELSE val

CountsLoose(is_enabled, current_value) == current_value # None

CountsAbsent(is_enabled, current_value) == is_enabled # 0

\* line 184: if is_enabled and current_value is not None
Counts(is_enabled, current_value) == is_enabled # 0 /\ current_value # None

OutOfBoundsSorted(current_value, low_limit, high_limit) ==
  IF low_limit <= high_limit
  THEN current_value < low_limit \/ current_value > high_limit
  ELSE current_value < high_limit \/ current_value > low_limit

OutOfBoundsLowOnly(current_value, low_limit, high_limit) ==
  current_value < low_limit

\* line 185: current_value < low_limit or current_value > high_limit
OutOfBounds(current_value, low_limit, high_limit) ==
  current_value < low_limit \/ current_value > high_limit

RECURSIVE ScanList(_, _, _, _, _)

ScanListStopsEarly(list, vals, en, lo, hi) ==
  IF list = <<>> THEN TRUE
  ELSE LET target == Head(list) IN
       IF Counts(en[target], vals[target])
       THEN ~OutOfBounds(vals[target], lo[target], hi[target])
       ELSE ScanList(Tail(list), vals, en, lo, hi)

\* lines 166-188: `for target in ...` over a list of targets, all_ok = False
\* and break on the first alarm
ScanList(list, vals, en, lo, hi) ==
  IF list = <<>> THEN TRUE
  ELSE LET target == Head(list) IN
       IF Counts(en[target], vals[target])
          /\ OutOfBounds(vals[target], lo[target], hi[target])
       THEN FALSE
       ELSE ScanList(Tail(list), vals, en, lo, hi)

\* lines 166-188: the scan of target_pvs_list from position i on
ScanTargets(i, vals, en, lo, hi) ==
  ScanList(SubSeq(target_pvs_list, i, Len(target_pvs_list)), vals, en, lo, hi)

\* lines 160-190: the status a recompute arrives at
NewStatus(me, vals, en, lo, hi) ==
  IF me = 0 THEN 1
  ELSE IF ScanTargets(1, vals, en, lo, hi) THEN 1 ELSE 0

NeedsWriteAlways(cur, new) == TRUE

\* lines 161 and 191: if self.summary_status.value != new_status
NeedsWrite(cur, new) == cur # new

ValuesAtRecomputeStale(old, new) == old

\* lines 146-148: the value is stored, then the recompute reads self.target_values
ValuesAtRecompute(old, new) == new

ListeningRetry(pc) == pc \in {"wait", "dead"}

\* line 136: async for takes events while the subscription has not raised
Listening(pc) == pc = "wait"

TakeIndexNewest(q) == Len(q)

\* line 136: the subscription hands out its events in arrival order
TakeIndex(q) == 1

RemoveAt(q, i) == SubSeq(q, 1, i - 1) \o SubSeq(q, i + 1, Len(q))

ScheduledChecksNone(n) == n

\* lines 204-209: every putter call creates its own check_after task
ScheduledChecks(n) == n + 1

\* _update_summary, lines 154-193, run on the registry (vals, en, lo, hi) with
\* master_enable = me; the write is part of the same uninterrupted run
UpdateSummary(me, vals) ==
  LET new == NewStatus(me, vals, enable_pv', low_pv', high_pv') IN
  /\ summary_status' = IF NeedsWrite(summary_status, new) THEN new ELSE summary_status
  /\ replaced' = IF NeedsWrite(summary_status, new) THEN summary_status ELSE replaced
  /\ ctlDirty' = FALSE

\* the caller is suspended in summary_status.write iff a write was made
Suspends(me, vals) ==
  NeedsWrite(summary_status, NewStatus(me, vals, enable_pv', low_pv', high_pv'))

\* ------------------------------------------------------------------- Init
Init ==
  /\ target_values = [t \in Targets |-> None]
  /\ enable_pv = [t \in Targets |-> DefaultEnable]
  /\ low_pv = [t \in Targets |-> DefaultLow]
  /\ high_pv = [t \in Targets |-> DefaultHigh]
  /\ master_enable = DefaultMaster
  /\ summary_status = DefaultSummary
  /\ startPc = "connect"
  /\ startIdx = 1
  /\ loopPc = [t \in Targets |-> "none"]
  /\ masterPc = "idle"
  /\ masterPending = DefaultMaster
  /\ pendingChecks = 0
  /\ replaced = None
  /\ ctlDirty = FALSE
  /\ unresolved = {}
  /\ feedQ = [t \in Targets |-> <<>>]
  /\ lastDelivered = [t \in Targets |-> None]

\* ---------------------------------------------------------------- startup
ctlUnchanged == UNCHANGED <<enable_pv, low_pv, high_pv>>
masterUnchanged == UNCHANGED <<master_enable, masterPc, masterPending>>
feedUnchanged == UNCHANGED <<feedQ, lastDelivered>>

StartupConnectLenient(bad) ==
  /\ startPc = "connect"
  /\ startPc' = "read"
  /\ unresolved' = bad
  /\ feedUnchanged
  /\ UNCHANGED <<target_values, enable_pv, low_pv, high_pv, master_enable,
                 summary_status, startIdx, loopPc, masterPc, masterPending,
                 pendingChecks, replaced, ctlDirty>>

\* lines 80-85: get_pvs returns the handles, or raises because the identifiers
\* in bad cannot be resolved, and startup returns
StartupConnect(bad) ==
  /\ startPc = "connect"
  /\ startPc' = IF bad = {} THEN "read" ELSE "failed"
  /\ unresolved' = bad
  /\ feedUnchanged
  /\ UNCHANGED <<target_values, enable_pv, low_pv, high_pv, master_enable,
                 summary_status, startIdx, loopPc, masterPc, masterPending,
                 pendingChecks, replaced, ctlDirty>>

\* the next iteration of `for pv in pvs`, or the end of startup
StartupAdvance ==
  IF startIdx < Len(target_pvs_list)
  THEN startPc' = "read" /\ startIdx' = startIdx + 1
  ELSE startPc' = "done" /\ startIdx' = startIdx

\* lines 91-115: pv.read() returned v (None: it raised); the value is stored,
\* the monitor task is created and the initial summary update runs
StartupRead(v) ==
  /\ startPc = "read"
  /\ LET t == target_pvs_list[startIdx]
         stored == IF v = None THEN target_values
                   ELSE [target_values EXCEPT ![t] = v]
     IN /\ target_values' = stored
        /\ loopPc' = [loopPc EXCEPT ![t] = "wait"]
        /\ ctlUnchanged
        /\ UpdateSummary(master_enable, ValuesAtRecompute(target_values, stored))
        /\ IF Suspends(master_enable, ValuesAtRecompute(target_values, stored))
           THEN startPc' = "pub" /\ startIdx' = startIdx
           ELSE StartupAdvance
  /\ lastDelivered' = IF v = None THEN lastDelivered
                      ELSE [lastDelivered EXCEPT ![target_pvs_list[startIdx]] = v]
  /\ masterUnchanged
  /\ UNCHANGED <<pendingChecks, unresolved, feedQ>>

\* line 115 returns: the summary write of the startup loop completed
StartupResume ==
  /\ startPc = "pub"
  /\ StartupAdvance
  /\ UNCHANGED <<target_values, enable_pv, low_pv, high_pv, master_enable,
                 summary_status, loopPc, masterPc, masterPending,
                 pendingChecks, replaced, ctlDirty>>
  /\ UNCHANGED <<unresolved, feedQ, lastDelivered>>

\* line 93: pv.read() never returns
StartupHang ==
  /\ startPc = "read"
  /\ startPc' = "hung"
  /\ UNCHANGED <<target_values, enable_pv, low_pv, high_pv, master_enable,
                 summary_status, startIdx, loopPc, masterPc, masterPending,
                 pendingChecks, replaced, ctlDirty>>
  /\ UNCHANGED <<unresolved, feedQ, lastDelivered>>

\* ----------------------------------------------------------- monitor loop
\* lines 136-148: one event of target t with extracted scalar v
LoopEvent(t, v) ==
  /\ Listening(loopPc[t])
  /\ LET stored == [target_values EXCEPT ![t] = v] IN
        /\ target_values' = stored
        /\ ctlUnchanged
        /\ UpdateSummary(master_enable, ValuesAtRecompute(target_values, stored))
        /\ loopPc' = [loopPc EXCEPT ![t] =
             IF Suspends(master_enable, ValuesAtRecompute(target_values, stored))
             THEN "pub" ELSE "wait"]
  /\ masterUnchanged
  /\ UNCHANGED <<startPc, startIdx, pendingChecks, unresolved>>

\* the feed delivers an event and the waiting loop takes it at once
FeedEvent(t, v) ==
  /\ feedQ[t] = <<>>
  /\ LoopEvent(t, v)
  /\ lastDelivered' = [lastDelivered EXCEPT ![t] = v]
  /\ UNCHANGED feedQ

\* the feed delivers an event with payload a to the subscription of target t
FeedDeliver(t, a) ==
  /\ loopPc[t] \in {"wait", "pub"}
  /\ Len(feedQ[t]) < MaxQueue
  /\ feedQ' = [feedQ EXCEPT ![t] = Append(@, a)]
  /\ lastDelivered' = [lastDelivered EXCEPT ![t] = ExtractScalar(TRUE, a)]
  /\ UNCHANGED <<target_values, enable_pv, low_pv, high_pv, master_enable,
                 summary_status, startPc, startIdx, loopPc, masterPc, masterPending,
                 pendingChecks, replaced, ctlDirty, unresolved>>

\* line 136: the loop takes the next event of its subscription
LoopTake(t) ==
  /\ feedQ[t] # <<>>
  /\ LoopEvent(t, ExtractScalar(TRUE, feedQ[t][TakeIndex(feedQ[t])]))
  /\ feedQ' = [feedQ EXCEPT ![t] = RemoveAt(@, TakeIndex(@))]
  /\ UNCHANGED lastDelivered

\* line 148 returns: the loop goes back to waiting for the next event
LoopResume(t) ==
  /\ loopPc[t] = "pub"
  /\ loopPc' = [loopPc EXCEPT ![t] = "wait"]
  /\ UNCHANGED <<target_values, enable_pv, low_pv, high_pv, master_enable,
                 summary_status, startPc, startIdx, masterPc, masterPending,
                 pendingChecks, replaced, ctlDirty>>
  /\ UNCHANGED <<unresolved, feedQ, lastDelivered>>

LoopFailClears(t) ==
  /\ loopPc[t] = "wait"
  /\ loopPc' = [loopPc EXCEPT ![t] = "dead"]
  /\ target_values' = [target_values EXCEPT ![t] = None]
  /\ UNCHANGED <<enable_pv, low_pv, high_pv, master_enable,
                 summary_status, startPc, startIdx, masterPc, masterPending,
                 pendingChecks, replaced, ctlDirty>>
  /\ UNCHANGED <<unresolved, feedQ, lastDelivered>>

\* lines 149-150: the subscription raised; the loop logs and ends
LoopFail(t) ==
  /\ loopPc[t] = "wait"
  /\ loopPc' = [loopPc EXCEPT ![t] = "dead"]
  /\ UNCHANGED <<target_values, enable_pv, low_pv, high_pv, master_enable,
                 summary_status, startPc, startIdx, masterPc, masterPending,
                 pendingChecks, replaced, ctlDirty>>
  /\ UNCHANGED <<unresolved, feedQ, lastDelivered>>

\* ---------------------------------------------------------- master enable
\* lines 68-71: the putter recomputes with the value being written; the value
\* is stored in the point when the putter has returned
MasterPut(value) ==
  /\ masterPc = "idle"
  /\ ctlUnchanged
  /\ UpdateSummary(value, target_values)
  /\ masterPending' = value
  /\ IF Suspends(value, target_values)
     THEN masterPc' = "pub" /\ master_enable' = master_enable
     ELSE masterPc' = "idle" /\ master_enable' = value
  /\ UNCHANGED <<target_values, startPc, startIdx, loopPc, pendingChecks>>
  /\ UNCHANGED <<unresolved, feedQ, lastDelivered>>

\* line 71: the putter returns and the framework stores the written value
MasterStore ==
  /\ masterPc = "pub"
  /\ masterPc' = "idle"
  /\ master_enable' = masterPending
  /\ UNCHANGED <<target_values, enable_pv, low_pv, high_pv, summary_status,
                 startPc, startIdx, loopPc, masterPending, pendingChecks,
                 replaced, ctlDirty>>
  /\ UNCHANGED <<unresolved, feedQ, lastDelivered>>

\* ------------------------------------------------------ per-target points
\* lines 201-210: the putter schedules check_after and returns; the framework
\* then stores the written value
GenericPut(t, field, value) ==
  /\ pendingChecks < MaxPending
  /\ enable_pv' = IF field = "enable" THEN [enable_pv EXCEPT ![t] = value] ELSE enable_pv
  /\ low_pv' = IF field = "low" THEN [low_pv EXCEPT ![t] = value] ELSE low_pv
  /\ high_pv' = IF field = "high" THEN [high_pv EXCEPT ![t] = value] ELSE high_pv
  /\ pendingChecks' = ScheduledChecks(pendingChecks)
  /\ ctlDirty' = TRUE
  /\ masterUnchanged
  /\ UNCHANGED <<target_values, summary_status, startPc, startIdx, loopPc, replaced>>
  /\ UNCHANGED <<unresolved, feedQ, lastDelivered>>

\* lines 204-206: the sleep of one check_after task is over
CheckAfter ==
  /\ pendingChecks > 0
  /\ pendingChecks' = pendingChecks - 1
  /\ ctlUnchanged
  /\ UpdateSummary(master_enable, target_values)
  /\ masterUnchanged
  /\ UNCHANGED <<target_values, startPc, startIdx, loopPc>>
  /\ UNCHANGED <<unresolved, feedQ, lastDelivered>>

\* ------------------------------------------------------------------- Next
Next ==
  \/ \E bad \in SUBSET Targets : StartupConnect(bad)
  \/ \E v \in Values \cup {None} : StartupRead(ExtractScalar(FALSE, v))
  \/ \E a \in ArrayPayloads : StartupRead(ExtractScalar(TRUE, a))
  \/ StartupResume
  \/ StartupHang
  \/ \E t \in Targets, v \in Values : FeedEvent(t, ExtractScalar(FALSE, v))
  \/ \E t \in Targets, a \in ArrayPayloads : FeedEvent(t, ExtractScalar(TRUE, a))
  \/ \E t \in Targets : LoopResume(t)
  \/ \E t \in Targets : LoopFail(t)
  \/ \E value \in MasterWrites : MasterPut(value)
  \/ MasterStore
  \/ \E t \in Targets, value \in EnableWrites : GenericPut(t, "enable", value)
  \/ \E t \in Targets, value \in LowWrites : GenericPut(t, "low", value)
  \/ \E t \in Targets, value \in HighWrites : GenericPut(t, "high", value)
  \/ CheckAfter

Spec == Init /\ [][Next]_vars

\* the event loop runs every check_after task whose sleep is over
FairSpec == Spec /\ WF_vars(CheckAfter)

\* startup and the monitor loops, every subscription holding the events its
\* loop has not taken yet
FeedNext ==
  \/ \E bad \in SUBSET Targets : StartupConnect(bad)
  \/ \E v \in Values \cup {None} : StartupRead(ExtractScalar(FALSE, v))
  \/ \E a \in ArrayPayloads : StartupRead(ExtractScalar(TRUE, a))
  \/ StartupResume
  \/ StartupHang
  \/ \E t \in Targets, a \in ArrayPayloads : FeedDeliver(t, a)
  \/ \E t \in Targets : LoopTake(t)
  \/ \E t \in Targets : LoopResume(t)
  \/ \E t \in Targets : LoopFail(t)

FeedSpec == Init /\ [][FeedNext]_vars

TypeOK ==
  /\ target_values \in [Targets -> Values \cup {None}]
  /\ enable_pv \in [Targets -> EnableWrites]
  /\ low_pv \in [Targets -> LowWrites]
  /\ high_pv \in [Targets -> HighWrites]
  /\ master_enable \in MasterWrites
  /\ summary_status \in {0, 1}
  /\ pendingChecks \in 0..MaxPending

\* ------------------------------------------------------------ definitions
\* the aggregate of the stored registry
AllInBounds == ScanTargets(1, target_values, enable_pv, low_pv, high_pv)

StoredStatus == NewStatus(master_enable, target_values, enable_pv, low_pv, high_pv)

\* no _update_summary invocation is scheduled, running or suspended
Quiescent ==
  /\ masterPc = "idle"
  /\ pendingChecks = 0
  /\ startPc # "pub"
  /\ \A t \in Targets : loopPc[t] # "pub"

\* the newest MasterEnable value some recompute has read: the value of the
\* write in flight, else the stored one
LatestMaster == IF masterPc = "pub" THEN masterPending ELSE master_enable

\* a step that changes the value of target t and nothing else of the registry
ValueEventOf(t) ==
  /\ target_values'[t] # target_values[t]
  /\ \A u \in Targets \ {t} : target_values'[u] = target_values[u]
  /\ enable_pv' = enable_pv /\ low_pv' = low_pv /\ high_pv' = high_pv
  /\ master_enable' = master_enable

\* ------------------------------------------------------------------ claims

\* C1: in every reachable state in which the stored MasterEnable is 0,
\* SUMMARY_STATUS is 1.
C1_MasterOverride == master_enable = 0 => summary_status = 1

\* C2: whenever MasterEnable is 1 and no recompute is pending or in flight,
\* SUMMARY_STATUS is 1 iff every enabled target with a known value is within
\* its bounds.
C2_Equivalence ==
  (master_enable = 1 /\ Quiescent) => (summary_status = 1 <=> AllInBounds)

\* C3: recompute-and-publish sequences are serialized: every value written to
\* SUMMARY_STATUS is the aggregate of the latest registry state, the latest
\* MasterEnable being the newest one a recompute has read; an invocation that
\* read an older MasterEnable never publishes after one that read the newer.
C3_NoStalePublish ==
  [][summary_status' # summary_status =>
       summary_status' = NewStatus(LatestMaster', target_values', enable_pv',
                                   low_pv', high_pv')]_vars

\* C4: a step that stores a new value for a target also runs the recompute
\* on the registry holding that new value: the status after the step is the
\* aggregate computed with the updated value.
C4_Freshness ==
  [][target_values' # target_values =>
       summary_status' = NewStatus(master_enable, target_values', enable_pv,
                                   low_pv, high_pv)]_vars

C4_Witness ==
  /\ target_values["T1"] = 50 /\ target_values["T2"] = 150
  /\ loopPc["T1"] = "wait" /\ loopPc["T2"] = "pub"
  /\ master_enable = 1 /\ summary_status = 0

\* C5: the latest write to SUMMARY_STATUS replaced a value different from
\* the one it wrote: no write carries the value it replaces.
C5_WriteSuppression == replaced # summary_status

C5_Witness ==
  /\ replaced # None
  /\ masterPc = "pub"
  /\ \E t \in Targets : loopPc[t] = "pub"

\* C6: when a write of 1 to MasterEnable completes (the stored value was 0)
\* while some enabled target with a known value is out of bounds,
\* SUMMARY_STATUS is 0.
C6_MasterWriteImmediate ==
  [][(master_enable = 0 /\ master_enable' = 1 /\ ~AllInBounds') =>
       summary_status' = 0]_vars

\* C7 as stated: a feed event of a disabled target, nothing else of the
\* registry changing, never changes SUMMARY_STATUS.
C7_Original ==
  [][\A t \in Targets :
       (enable_pv[t] = 0 /\ ValueEventOf(t)) =>
         summary_status' = summary_status]_vars

\* C7 amended: a feed event of a disabled target, nothing else of the
\* registry changing, does not change SUMMARY_STATUS when SUMMARY_STATUS
\* was the aggregate of the stored registry before the event.
C7_Exclusion ==
  [][\A t \in Targets :
       (enable_pv[t] = 0 /\ ValueEventOf(t) /\ summary_status = StoredStatus) =>
         summary_status' = summary_status]_vars

C7_Witness ==
  /\ enable_pv["T2"] = 0 /\ target_values["T2"] = 150
  /\ loopPc["T2"] = "wait"
  /\ target_values["T1"] = 50 /\ enable_pv["T1"] = 1
  /\ low_pv["T1"] = 0 /\ high_pv["T1"] = 100
  /\ master_enable = 1 /\ masterPc = "idle" /\ pendingChecks = 0
  /\ summary_status = 1

\* C8: after a write to a target's Enabled, Low or High point, a state is
\* eventually reached in which a recompute has read every written value and
\* SUMMARY_STATUS is the aggregate of the stored registry.
C8_ControlWriteRecompute ==
  ctlDirty ~> (~ctlDirty /\ summary_status = StoredStatus)

\* disabling the only out-of-bound target has returned the status to 1
C8_Witness ==
  /\ enable_pv["T2"] = 0 /\ target_values["T2"] = 150
  /\ replaced = 0 /\ summary_status = 1
  /\ master_enable = 1 /\ masterPc = "idle"
  /\ ~ctlDirty /\ pendingChecks = 0
  /\ \A t \in Targets : loopPc[t] = "dead"

\* C9: writes to per-target points within one debounce delay are coalesced:
\* at most one deferred Aggregator invocation is pending at any time.
C9_Coalesced == pendingChecks <= 1

\* C10: a stall of one target's initial read does not block the others:
\* every other target has its subscription loop started.
C10_Independent ==
  startPc = "hung" =>
    \A t \in Targets \ {target_pvs_list[startIdx]} : loopPc[t] # "none"

\* ------------------------------------------------- definitions, continued
\* the initial read of target t failed and no event has been stored since
ReadFailed(t) == loopPc[t] # "none" /\ target_values[t] = None

\* target t is enabled, has a known value and that value is out of bounds
Violates(t) ==
  /\ enable_pv[t] # 0
  /\ target_values[t] # None
  /\ (target_values[t] < low_pv[t] \/ target_values[t] > high_pv[t])

\* the orders in which the configuration can list the targets
Orderings ==
  {o \in [1..Len(target_pvs_list) -> Targets] :
     \A i, j \in 1..Len(target_pvs_list) : o[i] = o[j] => i = j}

\* a step in which an _update_summary invocation ran and either wrote
\* SUMMARY_STATUS or belongs to an initial read, a stored value or a
\* check_after task
RecomputeRan ==
  \/ pendingChecks' < pendingChecks
  \/ target_values' # target_values
  \/ summary_status' # summary_status
  \/ \E t \in Targets : loopPc[t] = "none" /\ loopPc'[t] # "none"
  \/ \E t \in Targets : loopPc[t] = "wait" /\ loopPc'[t] = "pub"

\* the invocation of the step computed with master_enable = 1
MasterReadAsOne ==
  IF masterPc = "idle" /\ masterPc' = "pub"
  THEN masterPending' = 1
  ELSE master_enable = 1

\* ------------------------------------------------------ claims, continued

\* C11: when get_pvs fails for one identifier, startup still ends with the
\* subscription loop of every other target started.
C11_ConnectNotFatal ==
  (Cardinality(unresolved) = 1 /\ startPc \in {"failed", "done"}) =>
    \A t \in Targets \ unresolved : loopPc[t] # "none"

\* C12 as stated: once the initial read of a target has failed, its value
\* stays absent.
C12_Original ==
  [][\A t \in Targets : ReadFailed(t) => target_values'[t] = None]_vars

\* C12 amended: after a failed initial read the value of the target becomes
\* known only by an event its own running subscription loop takes, and as
\* long as it is absent the target never makes SUMMARY_STATUS 0: a write of 0
\* has another target that is enabled, known and out of bounds.
C12_FailedReadExcluded ==
  [][\A t \in Targets :
       /\ (ReadFailed(t) /\ target_values'[t] # None) => loopPc[t] = "wait"
       /\ (ReadFailed(t)' /\ summary_status' # summary_status /\ summary_status' = 0)
            => \E u \in Targets \ {t} : Violates(u)']_vars

C12_Witness ==
  /\ target_values["T1"] = None /\ loopPc["T1"] = "dead"
  /\ target_values["T2"] = 150 /\ loopPc["T2"] = "wait"
  /\ master_enable = 1 /\ summary_status = 0

\* C13: a subscription loop that ended on an error stays ended and the value
\* of its target is never stored again; its end leaves the loops of the
\* other targets as they are.
C13_LoopEndsForGood ==
  [][\A t \in Targets :
       /\ loopPc[t] = "dead" =>
            (loopPc'[t] = "dead" /\ target_values'[t] = target_values[t])
       /\ (loopPc[t] # "dead" /\ loopPc'[t] = "dead") =>
            \A u \in Targets \ {t} : loopPc'[u] = loopPc[u]]_vars

C13_Witness ==
  /\ loopPc["T1"] = "dead" /\ target_values["T1"] = 50
  /\ loopPc["T2"] = "pub" /\ target_values["T2"] = 150
  /\ startPc = "done" /\ summary_status = 0

\* C14: the values of a target are stored in the order its feed delivered
\* them: whenever the loop has taken every delivered event, the stored value
\* is the one delivered last.
C14_InOrder ==
  \A t \in Targets : feedQ[t] = <<>> => target_values[t] = lastDelivered[t]

C14_Witness ==
  /\ Len(feedQ["T1"]) = 2 /\ feedQ["T1"][1] # feedQ["T1"][2]
  /\ loopPc["T1"] = "pub" /\ target_values["T1"] = 150
  /\ feedQ["T2"] # <<>>

\* C15: for the stored registry the scan gives, in every order of the target
\* list, all_ok exactly if no enabled target with a known value is out of
\* bounds, whatever the number of such targets.
C15_OrderIndependent ==
  \A o \in Orderings :
    ScanList(o, target_values, enable_pv, low_pv, high_pv)
      <=> ~(\E t \in Targets : Violates(t))

C15_Witness ==
  /\ \A t \in Targets : Violates(t)
  /\ master_enable = 1 /\ masterPc = "idle" /\ summary_status = 0

\* C16: low > high is stored as written, and every recompute that ran with
\* master_enable = 1 while an enabled target with a known value has
\* low > high leaves SUMMARY_STATUS at 0.
C16_DegenerateRange ==
  [][\A t \in Targets :
       (/\ low_pv'[t] > high_pv'[t]
        /\ enable_pv'[t] # 0 /\ target_values'[t] # None
        /\ RecomputeRan /\ MasterReadAsOne) => summary_status' = 0]_vars

C16_Witness ==
  /\ low_pv["T1"] = 60 /\ high_pv["T1"] = 40
  /\ enable_pv["T1"] = 1 /\ target_values["T1"] = 50
  /\ master_enable = 1 /\ masterPc = "idle" /\ pendingChecks = 0
  /\ replaced = 1 /\ summary_status = 0

\* C17: the end of a subscription loop leaves the stored value of its target
\* in place, and every later recompute that ran with master_enable = 1 while
\* that target is enabled and out of bounds leaves SUMMARY_STATUS at 0.
C17_DeadLoopStillCounts ==
  [][\A t \in Targets :
       /\ (loopPc[t] # "dead" /\ loopPc'[t] = "dead") =>
            target_values'[t] = target_values[t]
       /\ (loopPc[t] = "dead" /\ Violates(t)' /\ RecomputeRan /\ MasterReadAsOne)
            => summary_status' = 0]_vars

C17_Witness ==
  /\ loopPc["T1"] = "dead" /\ target_values["T1"] = 150
  /\ enable_pv["T1"] = 1 /\ low_pv["T1"] = 0 /\ high_pv["T1"] = 100
  /\ loopPc["T2"] = "wait" /\ target_values["T2"] = 50
  /\ master_enable = 1 /\ masterPc = "idle"
  /\ pendingChecks = 0 /\ ~ctlDirty /\ summary_status = 0

\* C18: once get_pvs has raised, startup has returned: no target ever has a
\* value or a subscription loop and SUMMARY_STATUS is 1, whatever is written
\* to the control points.
C18_ConnectFailure ==
  unresolved # {} =>
    /\ startPc = "failed"
    /\ \A t \in Targets : target_values[t] = None /\ loopPc[t] = "none"
    /\ summary_status = 1

C18_Witness ==
  /\ unresolved # {}
  /\ master_enable = 0 /\ masterPc = "idle"
  /\ enable_pv["T1"] = 0 /\ low_pv["T2"] = 60 /\ high_pv["T2"] = 40
  /\ pendingChecks = 0

\* C19: every target starts with an absent value, and a target whose value
\* is known never has an absent value again.
C19_KnowledgeMonotone ==
  /\ \A t \in Targets : target_values[t] = None
  /\ [][\A t \in Targets :
          target_values[t] # None => target_values'[t] # None]_vars

C19_Witness ==
  /\ target_values["T1"] # None /\ loopPc["T1"] = "dead"
  /\ master_enable = 0 /\ masterPc = "idle"
  /\ enable_pv["T1"] = 0 /\ pendingChecks = 0
====
